---------------------------- MODULE Spec2Model ----------------------------
(***************************************************************************)
(* Bulk SMS dispatch and balance accounting of bulk-backend.               *)
(*                                                                         *)
(* The sendSms request handler exists in two revisions:                    *)
(*   "per"  - src/unnamed/part_001: one gateway call per recipient, sent   *)
(*            in batches of BATCH_SIZE, debit of the successful sends;     *)
(*   "bulk" - src/controllers/smsController.js (= src/unnamed/part_002):   *)
(*            all numbers joined into one gateway call, debit of the       *)
(*            attempted count.                                             *)
(* Several requests of one client run concurrently; every await of the     *)
(* handler is a point where another request may run.                       *)
(*                                                                         *)
(* The Sequelize models (SmsBalance.hasEnoughBalance, SmsBalance.deductSms)*)
(* and the database are not part of src/; they are modelled as a plain     *)
(* counter on the loaded instance that is saved inside the transaction,    *)
(* the pattern the specification describes in its design notes.            *)
(*                                                                         *)
(* The size constants of the source are scaled down, keeping their order:  *)
(*   MAX_CONCURRENT_BATCHES < BATCH_SIZE < MAX_SMS_PER_REQUEST.            *)
(***************************************************************************)
EXTENDS Integers, Sequences, FiniteSets, TLC

\* ------------------------------------------------------------------------
\* Program constants (scaled) and bounds of the model
\* ------------------------------------------------------------------------
MAX_SMS_PER_REQUEST == 3

BATCH_SIZE == 2

MAX_CONCURRENT_BATCHES == 1

\* req.clientId of the requests modelled, and the owner of the foreign contact
ClientId == 1

OtherClientId == ClientId + 1

\* ids of the contacts that belong to OtherClientId
ForeignIds == {2}

\* largest initial totalSmsAvailable
MaxBalance == 3

\* longest contactIds array of a request
MaxIds == 2

\* the sendSms requests: two invocations of the handler, which may overlap in
\* any way or follow one another
Reqs == {1, 2}

\* the request followed when one request is studied on its own
Solo == {1}

\* rows of one Contact.bulkCreate of importContacts (100 in the source)
batchSize == 2

\* most contacts importContacts adds in one behaviour
MaxImport == 2

\* rows of the CSV file, at most
MaxRows == 3

\* times the import script is run on the same CSV file
MaxRounds == 2

\* a phone column that is empty after trim()
EmptyPhone == 0

\* the name and phone columns of a CSV row, after trim(): phone 1 is held by
\* contact 1 of ClientId, phones 5 and 6 by nobody
CsvNames == {"", "a", "b"}

CsvPhones == {EmptyPhone, 1, 5, 6}

\* largest id the Contact table hands out
MaxLastId == MAX_SMS_PER_REQUEST + 1 + MaxImport

\* ids a request may name: 0 does not exist, 2 belongs to another client
IdPool == 0..3

Messages == {"", " ", "hi"}

VARIABLES
    revision,       \* "per" | "bulk": the revision of sendSms that is deployed
    contacts,       \* Contact table, in storage order: sequence of [id, clientId]
    smsBalance,     \* SmsBalance row of ClientId: [exists, totalSmsAvailable]
    smsHistory,     \* SmsHistory table: sequence of committed entries
    rowLock,        \* request holding the write lock of the SmsBalance row, or 0
    run,            \* per request: the local state of its sendSms invocation
    lastId,         \* auto-increment counter of the Contact table
    importer,       \* the local state of the importContacts script
    initialCredit,  \* history variable: totalSmsAvailable at Init
    ledger          \* history variable: one record per committed dispatch

vars == <<revision, contacts, smsBalance, smsHistory, rowLock, run, lastId,
          importer, initialCredit, ledger>>

\* ------------------------------------------------------------------------
\* Helpers
\* ------------------------------------------------------------------------
Min(a, b) == IF a < b THEN a ELSE b

Range(s) == {s[k] : k \in 1..Len(s)}

RECURSIVE SeqsUpTo(_, _)
SeqsUpTo(S, n) ==
    IF n = 0 THEN {<<>>}
    ELSE LET shorter == SeqsUpTo(S, n - 1)
         IN  shorter \cup {Append(s, x) : s \in {t \in shorter : Len(t) = n - 1}, x \in S}

\* String.prototype.trim().length === 0 for the messages modelled
TrimIsEmpty(m) == m \in {"", " "}

\* Contact table with n contacts of ClientId and one of OtherClientId
ContactTable(n) ==
    [k \in 1..(n + 1) |->
        [id |-> k, clientId |-> IF k \in ForeignIds THEN OtherClientId ELSE ClientId,
         phone |-> k]]

\* ------------------------------------------------------------------------
\* Storage reads (Sequelize queries)
\* ------------------------------------------------------------------------
\* the ids of the rows of ClientId in a Contact table, in storage order
IdsOfClient(table) ==
    LET Mine(c) == c.clientId = ClientId
        rows == SelectSeq(table, Mine)
    IN  [k \in 1..Len(rows) |-> rows[k].id]

\* Contact.findAll({ where: { clientId } }) : the ids, in storage order
FindAllOfClient == IdsOfClient(contacts)

\* Contact.count({ where: { clientId } })
CountOfClient == Len(FindAllOfClient)

\* variant: the ids are looked up without the clientId condition
FindAllByIdsOfAnyClient(ids) ==
    LET Hit(c) == c.id \in Range(ids)
        rows == SelectSeq(contacts, Hit)
    IN  [k \in 1..Len(rows) |-> rows[k].id]

\* Contact.findAll({ where: { id: contactIds, clientId } })
FindAllByIds(ids) ==
    LET Hit(c) == c.clientId = ClientId /\ c.id \in Range(ids)
        rows == SelectSeq(contacts, Hit)
    IN  [k \in 1..Len(rows) |-> rows[k].id]

\* Contact.findAll({ where: { clientId }, offset, limit })
FindPage(offset, limit) ==
    LET all == FindAllOfClient
    IN  SubSeq(all, offset + 1, Min(offset + limit, Len(all)))

\* SmsBalance.findOne({ where: { clientId }, transaction }): a plain read, no lock
FindOneBalance ==
    [found |-> smsBalance.exists, totalSmsAvailable |-> smsBalance.totalSmsAvailable]

\* ------------------------------------------------------------------------
\* Per-request state
\* ------------------------------------------------------------------------
NoResponse ==
    [code |-> 0, error |-> "none", status |-> "none", totalContacts |-> 0,
     sentCount |-> 0, failedCount |-> 0, smsUsed |-> 0, remainingBalance |-> 0]

NewTransaction ==
    [state |-> "open", wroteBalance |-> FALSE, newBalance |-> 0, debit |-> 0,
     history |-> <<>>]

IdleRun ==
    [pc |-> "idle",
     message |-> "", sendToAll |-> FALSE, hasIds |-> FALSE, contactIds |-> <<>>,
     transaction |-> [NewTransaction EXCEPT !.state = "none"],
     totalContactsCount |-> 0,
     inst |-> [found |-> FALSE, totalSmsAvailable |-> 0],
     contacts |-> <<>>, offset |-> 0,
     passedCheck |-> FALSE,
     i |-> 0, inflight |-> {},
     silent |-> {},   \* calls in flight that the gateway will never answer
     tables |-> {},   \* history: contents of the Contact table while paging
     sentMessages |-> <<>>, failedMessages |-> <<>>,
     sendResponse |-> [kind |-> "none", status |-> 0, props |-> {}],
     \* history: the call of the batch that answered last, and its result
     smsResult |-> [k |-> 0, res |-> [kind |-> "none", status |-> 0, props |-> {}]],
     calls |-> <<>>,
     resp |-> NoResponse]

\* the locals of importContacts before the script is started
IdleImporter ==
    [pc |-> "off", round |-> 0, csv |-> <<>>, contacts |-> <<>>,
     newContacts |-> <<>>, i |-> 0, imported |-> 0]

Init ==
    /\ revision \in {"per", "bulk"}
    /\ \E n \in {MAX_SMS_PER_REQUEST, MAX_SMS_PER_REQUEST + 1} :
          contacts = ContactTable(n)
    /\ lastId = Len(contacts)
    /\ importer = IdleImporter
    /\ \E b \in 0..MaxBalance, e \in BOOLEAN :
          /\ (~e => b = 0)
          /\ smsBalance = [exists |-> e, totalSmsAvailable |-> b]
          /\ initialCredit = b
    /\ smsHistory = <<>>
    /\ rowLock = 0
    /\ run = [r \in Reqs |-> IdleRun]
    /\ ledger = <<>>


\* ------------------------------------------------------------------------
\* Gateway client: src/send_sms.js
\* ------------------------------------------------------------------------
\* What sendSMS returns: response.status of a completed request (axios resolves
\* for 2xx only), or the caught error object.  props are the properties the
\* returned value carries.
GatewayResults ==
    { [kind |-> "status", status |-> 200, props |-> {}],
      [kind |-> "status", status |-> 204, props |-> {}],
      [kind |-> "error",  status |-> 0,   props |-> {"message", "code"}] }

\* variant: every HTTP status that sendSMS returns counts as sent
IsSentOnAnyStatus(res) == res.kind = "status"

\* smsResult === 200
IsSent(res) == res.kind = "status" /\ res.status = 200

\* sendResponse.success, as a condition
SendResponseSuccess(res) == "success" \in res.props

\* ------------------------------------------------------------------------
\* SmsBalance instance methods and the transaction
\* ------------------------------------------------------------------------
\* smsBalance.hasEnoughBalance(n)
HasEnoughBalance(inst, n) == inst.totalSmsAvailable >= n

\* smsBalance.deductSms(n, { transaction }): the loaded instance is decremented
\* and saved in the transaction
DeductSms(st, n) ==
    [st EXCEPT !.inst.totalSmsAvailable = @ - n,
               !.transaction.wroteBalance = TRUE,
               !.transaction.newBalance = st.inst.totalSmsAvailable - n,
               !.transaction.debit = @ + n]

\* transaction.rollback(): the pending writes are discarded
RolledBack(t) ==
    [t EXCEPT !.state = "rolledback", !.wroteBalance = FALSE, !.newBalance = 0,
              !.debit = 0, !.history = <<>>]

\* the SmsBalance row after transaction.commit()
CommittedBalance(t) ==
    IF t.wroteBalance
    THEN [smsBalance EXCEPT !.totalSmsAvailable = t.newBalance]
    ELSE smsBalance

\* the SmsHistory table after transaction.commit()
CommittedHistory(t) == smsHistory \o t.history

\* variant: the error is answered and the transaction is left as it is
RejectedWithoutRollback(st, code, error) ==
    [st EXCEPT !.pc = "done",
               !.resp = [NoResponse EXCEPT !.code = code, !.error = error]]

\* res.status(code).json({ success: false, ... }) after transaction.rollback()
Rejected(st, code, error) ==
    [st EXCEPT !.pc = "done",
               !.transaction = RolledBack(@),
               !.resp = [NoResponse EXCEPT !.code = code, !.error = error]]

ReleaseLock(r) == IF rowLock = r THEN 0 ELSE rowLock

Frame == UNCHANGED <<revision, contacts, lastId, importer, initialCredit>>

\* ------------------------------------------------------------------------
\* sendSms, both revisions: entry and validation
\* ------------------------------------------------------------------------
\* The transaction is opened; validation errors and an empty message answer 400
\* and return without finishing the transaction.
Begin(r) ==
    /\ run[r].pc = "idle"
    /\ \E valErr \in BOOLEAN, m \in Messages, all \in BOOLEAN, has \in BOOLEAN,
          ids \in SeqsUpTo(IdPool, MaxIds) :
          \* fields the handler never reads are not enumerated
          /\ (valErr \/ TrimIsEmpty(m)) => (~all /\ ~has /\ ids = <<>>)
          /\ valErr => m = "hi"
          /\ (all \/ ~has) => ids = <<>>
          /\ all => ~has
          /\ IF valErr \/ TrimIsEmpty(m)
             THEN run' = [run EXCEPT ![r] =
                     [@ EXCEPT !.pc = "done",
                               !.transaction = NewTransaction,
                               !.resp = [NoResponse EXCEPT
                                           !.code = 400,
                                           !.error = IF valErr THEN "validation"
                                                     ELSE "emptyMessage"]]]
             ELSE run' = [run EXCEPT ![r] =
                     [@ EXCEPT !.pc = IF revision = "per" THEN "limit" ELSE "resolve",
                               !.transaction = NewTransaction,
                               !.message = m, !.sendToAll = all,
                               !.hasIds = has, !.contactIds = ids]]
    /\ UNCHANGED <<smsBalance, smsHistory, rowLock, ledger>>
    /\ Frame

\* A storage call (count, findAll, findOne, deductSms, create, commit) throws:
\* the catch block rolls the transaction back and answers 500.
AwaitsStorage(st) ==
    \/ st.pc \in {"balance", "resolve", "history", "commit"}
    \/ st.pc = "limit" /\ st.sendToAll
    \/ st.pc = "settle" /\ (revision = "bulk" \/ Len(st.sentMessages) > 0)

Throw(r) ==
    /\ AwaitsStorage(run[r])
    /\ run' = [run EXCEPT ![r] = Rejected(@, 500, "exception")]
    /\ rowLock' = ReleaseLock(r)
    /\ UNCHANGED <<smsBalance, smsHistory, ledger>>
    /\ Frame


\* ------------------------------------------------------------------------
\* sendSms, revision "per" (src/unnamed/part_001)
\* ------------------------------------------------------------------------
\* Rate limiting check on the announced number of recipients
RateLimit(r) ==
    LET st == run[r] IN
    /\ revision = "per" /\ st.pc = "limit"
    /\ IF ~st.sendToAll /\ ~st.hasIds
       THEN run' = [run EXCEPT ![r] = Rejected(@, 400, "idsRequired")]
       ELSE LET n == IF st.sendToAll THEN CountOfClient ELSE Len(st.contactIds) IN
            IF n > MAX_SMS_PER_REQUEST
            THEN run' = [run EXCEPT ![r] = Rejected(@, 429, "tooMany")]
            ELSE run' = [run EXCEPT ![r] =
                    [@ EXCEPT !.pc = "balance", !.totalContactsCount = n]]
    /\ UNCHANGED <<smsBalance, smsHistory, rowLock, ledger>>
    /\ Frame

\* The balance row is loaded, without a lock, before the recipients are resolved
FindBalancePer(r) ==
    LET st == run[r] IN
    /\ revision = "per" /\ st.pc = "balance"
    /\ IF ~FindOneBalance.found
       THEN run' = [run EXCEPT ![r] = Rejected(@, 404, "noBalance")]
       ELSE run' = [run EXCEPT ![r] =
               [@ EXCEPT !.pc = "resolve", !.inst = FindOneBalance,
                         !.contacts = <<>>, !.offset = 0,
                         !.tables = {FindAllOfClient}]]
    /\ UNCHANGED <<smsBalance, smsHistory, rowLock, ledger>>
    /\ Frame

\* One iteration of the paging loop of a send-to-all request
FetchPage(r) ==
    LET st == run[r]
        batchContacts == FindPage(st.offset, BATCH_SIZE)
    IN
    /\ revision = "per" /\ st.pc = "resolve" /\ st.sendToAll
    /\ IF Len(batchContacts) = 0
       THEN run' = [run EXCEPT ![r] = [@ EXCEPT !.pc = "check", !.tables = {}]]
       ELSE run' = [run EXCEPT ![r] =
               [@ EXCEPT !.contacts = @ \o batchContacts,
                         !.offset = @ + BATCH_SIZE]]
    /\ UNCHANGED <<smsBalance, smsHistory, rowLock, ledger>>
    /\ Frame

\* The contacts of an explicit-ids request are fetched
FindByIdsPer(r) ==
    LET st == run[r]
        found == FindAllByIds(st.contactIds)
    IN
    /\ revision = "per" /\ st.pc = "resolve" /\ ~st.sendToAll
    /\ IF Len(found) # Len(st.contactIds)
       THEN run' = [run EXCEPT ![r] = Rejected(@, 400, "mismatch")]
       ELSE run' = [run EXCEPT ![r] = [@ EXCEPT !.pc = "check", !.contacts = found]]
    /\ UNCHANGED <<smsBalance, smsHistory, rowLock, ledger>>
    /\ Frame

\* variant: the count is taken from the request's id list
SmsCountFromIds(st) == Len(st.contactIds)

\* const smsCount = contacts.length
SmsCount(st) == Len(st.contacts)

\* Empty selection and sufficiency check, on the instance loaded earlier
CheckBalancePer(r) ==
    LET st == run[r]
        smsCount == SmsCount(st)
    IN
    /\ revision = "per" /\ st.pc = "check"
    /\ IF Len(st.contacts) = 0
       THEN run' = [run EXCEPT ![r] = Rejected(@, 400, "noContacts")]
       ELSE IF ~HasEnoughBalance(st.inst, smsCount)
       THEN run' = [run EXCEPT ![r] = Rejected(@, 400, "insufficient")]
       ELSE run' = [run EXCEPT ![r] =
               [@ EXCEPT !.pc = "dispatch", !.passedCheck = TRUE, !.i = 0]]
    /\ UNCHANGED <<smsBalance, smsHistory, rowLock, ledger>>
    /\ Frame

\* indices (1-based) of contacts.slice(i, i + BATCH_SIZE)
BatchIndices(st) == (st.i + 1)..Min(st.i + BATCH_SIZE, Len(st.contacts))

\* processBatch(batch): batch.map starts one sendSMS call per contact of the
\* batch, all of them before the first one answers
StartBatch(r) ==
    LET st == run[r]
        batch == BatchIndices(st)
    IN
    /\ revision = "per" /\ st.pc = "dispatch"
    /\ run' = [run EXCEPT ![r] =
          [@ EXCEPT !.pc = "batch",
                    !.inflight = @ \cup batch,
                    !.calls = @ \o [k \in 1..Cardinality(batch) |->
                                       <<st.contacts[st.i + k]>>]]]
    /\ UNCHANGED <<smsBalance, smsHistory, rowLock, ledger>>
    /\ Frame

\* variant: a result that is an error object is not recorded at all
RepliedDropsErrors(st, k, smsResult) ==
    [st EXCEPT !.inflight = @ \ {k},
               !.sentMessages =
                   IF IsSent(smsResult) THEN Append(@, st.contacts[k]) ELSE @,
               !.failedMessages =
                   IF smsResult.kind = "status" /\ ~IsSent(smsResult)
                   THEN Append(@, st.contacts[k]) ELSE @]

\* variant: a failed call is thrown on to the catch block of the handler
RepliedRethrows(st, k, smsResult) ==
    IF IsSent(smsResult)
    THEN [st EXCEPT !.inflight = @ \ {k},
                    !.sentMessages = Append(@, st.contacts[k])]
    ELSE [Rejected(st, 500, "exception") EXCEPT !.inflight = @ \ {k}]

\* The continuation of one sendSMS call of a batch: the contact is pushed to
\* sentMessages when the result is 200 and to failedMessages otherwise
Replied(st, k, smsResult) ==
    [st EXCEPT !.inflight = @ \ {k},
               !.smsResult = [k |-> k, res |-> smsResult],
               !.sentMessages =
                   IF IsSent(smsResult) THEN Append(@, st.contacts[k]) ELSE @,
               !.failedMessages =
                   IF IsSent(smsResult) THEN @ ELSE Append(@, st.contacts[k])]

\* One sendSMS call in flight answers
GatewayReply(r) ==
    LET st == run[r] IN
    /\ revision = "per"
    /\ \E k \in st.inflight \ st.silent, smsResult \in GatewayResults :
          run' = [run EXCEPT ![r] = Replied(st, k, smsResult)]
    /\ UNCHANGED <<smsBalance, smsHistory, rowLock, ledger>>
    /\ Frame

\* variant: processBatch(batch) is not awaited
BatchNotAwaited(st) == TRUE

\* await Promise.all(batchPromises): every call of the batch has answered
BatchSettled(st) == st.inflight = {}

\* The batch is over; the loop goes on with the next batch (after the pause
\* between batches) or ends
EndBatch(r) ==
    LET st == run[r] IN
    /\ revision = "per" /\ st.pc = "batch"
    /\ BatchSettled(st)
    /\ run' = [run EXCEPT ![r] =
          [@ EXCEPT !.i = @ + BATCH_SIZE,
                    !.smsResult = IdleRun.smsResult,
                    !.pc = IF st.i + BATCH_SIZE < Len(st.contacts)
                           THEN "dispatch" ELSE "settle"]]
    /\ UNCHANGED <<smsBalance, smsHistory, rowLock, ledger>>
    /\ Frame

\* if (successfulSends > 0): the debit and the history entry are written
SettleNeeded(st) == Len(st.sentMessages) > 0

\* variant: deductSms(n) without the transaction option
DeductOutsideTransaction == FALSE

\* deductSms(n, { transaction }): the save is part of the transaction
DeductInTransaction == TRUE

\* the run after deductSms(n, ...); a save outside the transaction leaves
\* nothing pending in it
Deducted(st, n) ==
    IF DeductInTransaction THEN DeductSms(st, n)
    ELSE [st EXCEPT !.inst.totalSmsAvailable = @ - n]

\* the SmsBalance row after deductSms(n, ...)
BalanceAfterDeduct(st, n) ==
    IF DeductInTransaction THEN smsBalance
    ELSE [smsBalance EXCEPT !.totalSmsAvailable = st.inst.totalSmsAvailable - n]

\* The successful sends are debited, if there are any
SettlePer(r) ==
    LET st == run[r]
        successfulSends == Len(st.sentMessages)
    IN
    /\ revision = "per" /\ st.pc = "settle"
    /\ IF SettleNeeded(st)
       THEN /\ rowLock \in {0, r}
            /\ rowLock' = IF DeductInTransaction THEN r ELSE rowLock
            /\ smsBalance' = BalanceAfterDeduct(st, successfulSends)
            /\ run' = [run EXCEPT ![r] =
                  [Deducted(st, successfulSends) EXCEPT !.pc = "history"]]
       ELSE /\ rowLock' = rowLock
            /\ smsBalance' = smsBalance
            /\ run' = [run EXCEPT ![r] = [@ EXCEPT !.pc = "commit"]]
    /\ UNCHANGED <<smsHistory, ledger>>
    /\ Frame

\* variant: SmsHistory.create(entry) without the transaction option
HistoryOutsideTransaction == FALSE

\* SmsHistory.create(entry, { transaction })
HistoryInTransaction == TRUE

\* the entry of SmsHistory.create, revision "per"
HistoryEntryPer(st) ==
    [clientId |-> ClientId, message |-> st.message,
     recipientCount |-> Len(st.sentMessages), smsUsed |-> Len(st.sentMessages),
     status |-> "sent"]

HistoryPer(r) ==
    LET st == run[r] IN
    /\ revision = "per" /\ st.pc = "history"
    /\ IF HistoryInTransaction
       THEN /\ run' = [run EXCEPT ![r] =
                  [@ EXCEPT !.pc = "commit",
                            !.transaction.history = Append(@, HistoryEntryPer(st))]]
            /\ smsHistory' = smsHistory
       ELSE /\ run' = [run EXCEPT ![r] = [@ EXCEPT !.pc = "commit"]]
            /\ smsHistory' = Append(smsHistory, HistoryEntryPer(st))
    /\ UNCHANGED <<smsBalance, rowLock, ledger>>
    /\ Frame

\* transaction.commit() and the 200 response
CommitPer(r) ==
    LET st == run[r] IN
    /\ revision = "per" /\ st.pc = "commit"
    /\ smsBalance' = CommittedBalance(st.transaction)
    /\ smsHistory' = CommittedHistory(st.transaction)
    /\ rowLock' = ReleaseLock(r)
    /\ ledger' = Append(ledger,
          [run |-> r, wrote |-> st.transaction.wroteBalance,
           debit |-> st.transaction.debit,
           sent |-> Len(st.sentMessages), attempted |-> Len(st.contacts)])
    /\ run' = [run EXCEPT ![r] =
          [@ EXCEPT !.pc = "done",
                    !.transaction.state = "committed",
                    !.resp = [code |-> 200, error |-> "none", status |-> "none",
                              totalContacts |-> Len(st.contacts),
                              sentCount |-> Len(st.sentMessages),
                              failedCount |-> Len(st.failedMessages),
                              smsUsed |-> Len(st.sentMessages),
                              remainingBalance |-> st.inst.totalSmsAvailable]]]
    /\ Frame


\* ------------------------------------------------------------------------
\* sendSms, revision "bulk" (src/controllers/smsController.js)
\* ------------------------------------------------------------------------
\* The recipients are resolved with one query and checked against the limits
ResolveBulk(r) ==
    LET st == run[r]
        found == IF st.sendToAll THEN FindAllOfClient ELSE FindAllByIds(st.contactIds)
    IN
    /\ revision = "bulk" /\ st.pc = "resolve"
    /\ IF ~st.sendToAll /\ ~st.hasIds
       THEN run' = [run EXCEPT ![r] = Rejected(@, 400, "idsRequired")]
       ELSE IF ~st.sendToAll /\ Len(found) # Len(st.contactIds)
       THEN run' = [run EXCEPT ![r] = Rejected(@, 400, "mismatch")]
       ELSE IF Len(found) = 0
       THEN run' = [run EXCEPT ![r] = Rejected(@, 400, "noContacts")]
       ELSE IF Len(found) > MAX_SMS_PER_REQUEST
       THEN run' = [run EXCEPT ![r] = Rejected(@, 429, "tooMany")]
       ELSE run' = [run EXCEPT ![r] = [@ EXCEPT !.pc = "balance", !.contacts = found]]
    /\ UNCHANGED <<smsBalance, smsHistory, rowLock, ledger>>
    /\ Frame

\* The balance row is loaded, without a lock, and checked; then the numbers of
\* all contacts are joined and sent in one sendSMS call
CheckBalanceBulk(r) ==
    LET st == run[r]
        loaded == FindOneBalance
    IN
    /\ revision = "bulk" /\ st.pc = "balance"
    /\ IF ~loaded.found \/ ~HasEnoughBalance(loaded, Len(st.contacts))
       THEN run' = [run EXCEPT ![r] =
               [Rejected(@, 400, "insufficient") EXCEPT !.inst = loaded]]
       ELSE run' = [run EXCEPT ![r] =
               [@ EXCEPT !.pc = "sending", !.inst = loaded, !.passedCheck = TRUE,
                         !.inflight = {1},
                         !.calls = Append(@, st.contacts)]]
    /\ UNCHANGED <<smsBalance, smsHistory, rowLock, ledger>>
    /\ Frame

\* The one sendSMS call answers
BulkReply(r) ==
    LET st == run[r] IN
    /\ revision = "bulk" /\ st.pc = "sending"
    /\ st.inflight \ st.silent # {}
    /\ \E sendResponse \in GatewayResults :
          run' = [run EXCEPT ![r] =
             [@ EXCEPT !.pc = "settle", !.inflight = {},
                       !.sendResponse = sendResponse]]
    /\ UNCHANGED <<smsBalance, smsHistory, rowLock, ledger>>
    /\ Frame

\* The attempted count is debited, whatever the gateway answered
SettleBulk(r) ==
    LET st == run[r] IN
    /\ revision = "bulk" /\ st.pc = "settle"
    /\ rowLock \in {0, r}
    /\ rowLock' = IF DeductInTransaction THEN r ELSE rowLock
    /\ smsBalance' = BalanceAfterDeduct(st, Len(st.contacts))
    /\ run' = [run EXCEPT ![r] =
          [Deducted(st, Len(st.contacts)) EXCEPT !.pc = "history"]]
    /\ UNCHANGED <<smsHistory, ledger>>
    /\ Frame

\* sendResponse.success ? "sent" : "failed"
BulkStatus(res) == IF SendResponseSuccess(res) THEN "sent" ELSE "failed"

\* the entry of SmsHistory.create, revision "bulk"
HistoryEntryBulk(st) ==
    [clientId |-> ClientId, message |-> st.message,
     recipientCount |-> Len(st.contacts), smsUsed |-> Len(st.contacts),
     status |-> BulkStatus(st.sendResponse)]

HistoryBulk(r) ==
    LET st == run[r] IN
    /\ revision = "bulk" /\ st.pc = "history"
    /\ IF HistoryInTransaction
       THEN /\ run' = [run EXCEPT ![r] =
                  [@ EXCEPT !.pc = "commit",
                            !.transaction.history = Append(@, HistoryEntryBulk(st))]]
            /\ smsHistory' = smsHistory
       ELSE /\ run' = [run EXCEPT ![r] = [@ EXCEPT !.pc = "commit"]]
            /\ smsHistory' = Append(smsHistory, HistoryEntryBulk(st))
    /\ UNCHANGED <<smsBalance, rowLock, ledger>>
    /\ Frame

\* number of recipients the gateway reported as sent, revision "bulk"
SentBulk(st) == IF IsSent(st.sendResponse) THEN Len(st.contacts) ELSE 0

\* transaction.commit() and the 200 response
CommitBulk(r) ==
    LET st == run[r] IN
    /\ revision = "bulk" /\ st.pc = "commit"
    /\ smsBalance' = CommittedBalance(st.transaction)
    /\ smsHistory' = CommittedHistory(st.transaction)
    /\ rowLock' = ReleaseLock(r)
    /\ ledger' = Append(ledger,
          [run |-> r, wrote |-> st.transaction.wroteBalance,
           debit |-> st.transaction.debit,
           sent |-> SentBulk(st), attempted |-> Len(st.contacts)])
    /\ run' = [run EXCEPT ![r] =
          [@ EXCEPT !.pc = "done",
                    !.transaction.state = "committed",
                    !.resp = [code |-> 200, error |-> "none",
                              status |-> BulkStatus(st.sendResponse),
                              totalContacts |-> Len(st.contacts),
                              sentCount |-> 0, failedCount |-> 0, smsUsed |-> 0,
                              remainingBalance |-> st.inst.totalSmsAvailable]]]
    /\ Frame

\* ------------------------------------------------------------------------
\* Specification
\* ------------------------------------------------------------------------
\* one step of the sendSms invocation of request r
RunNext(r) ==
    \/ Begin(r)
    \/ Throw(r)
    \/ RateLimit(r)
    \/ FindBalancePer(r)
    \/ FetchPage(r)
    \/ FindByIdsPer(r)
    \/ CheckBalancePer(r)
    \/ StartBatch(r)
    \/ GatewayReply(r)
    \/ EndBatch(r)
    \/ SettlePer(r)
    \/ HistoryPer(r)
    \/ CommitPer(r)
    \/ ResolveBulk(r)
    \/ CheckBalanceBulk(r)
    \/ BulkReply(r)
    \/ SettleBulk(r)
    \/ HistoryBulk(r)
    \/ CommitBulk(r)

Next == \E r \in Reqs : RunNext(r)

Spec == Init /\ [][Next]_vars

\* ------------------------------------------------------------------------
\* A gateway that may leave a call unanswered
\* ------------------------------------------------------------------------
\* axios.get is called without a timeout: a request the gateway accepts and
\* never answers stays pending, and its promise is never settled
GatewaySilent(r) ==
    LET st == run[r] IN
    /\ \E k \in st.inflight \ st.silent :
          run' = [run EXCEPT ![r] = [@ EXCEPT !.silent = @ \cup {k}]]
    /\ UNCHANGED <<smsBalance, smsHistory, rowLock, ledger>>
    /\ Frame

NextHang == \E r \in Solo : RunNext(r) \/ GatewaySilent(r)

SpecHang == Init /\ [][NextHang]_vars

\* ------------------------------------------------------------------------
\* The maintenance scripts change the Contact table while sendSms runs
\* ------------------------------------------------------------------------
\* a changed Contact table is noted by the requests that are paging through it
NotedBy(st, table) ==
    IF revision = "per" /\ st.pc = "resolve" /\ st.sendToAll
    THEN [st EXCEPT !.tables = @ \cup {IdsOfClient(table)}]
    ELSE st

\* importContacts: Contact.bulkCreate(batch) appends the rows of one batch
BulkCreate ==
    \E n \in 1..batchSize :
        LET batch == [k \in 1..n |-> [id |-> lastId + k, clientId |-> ClientId,
                                      phone |-> lastId + k]]
            table == contacts \o batch
        IN  /\ lastId + n <= MaxLastId
            /\ contacts' = table
            /\ lastId' = lastId + n
            /\ run' = [r \in Reqs |-> NotedBy(run[r], table)]
            /\ UNCHANGED <<revision, smsBalance, smsHistory, rowLock,
                           importer, initialCredit, ledger>>

\* removeRecentContacts: Contact.destroy deletes the contacts of ClientId
\* created in the last ten minutes, that is the n newest ones
Destroy ==
    \E n \in 1..CountOfClient :
        LET mine == FindAllOfClient
            recent == {mine[k] : k \in (Len(mine) - n + 1)..Len(mine)}
            Kept(c) == ~(c.clientId = ClientId /\ c.id \in recent)
            table == SelectSeq(contacts, Kept)
        IN  /\ contacts' = table
            /\ run' = [r \in Reqs |-> NotedBy(run[r], table)]
            /\ UNCHANGED <<revision, lastId, smsBalance, smsHistory, rowLock,
                           importer, initialCredit, ledger>>

\* an account with credit for one recipient more than a request may have
InitImport ==
    /\ revision \in {"per", "bulk"}
    /\ \E n \in 0..MAX_SMS_PER_REQUEST : contacts = ContactTable(n)
    /\ lastId = Len(contacts)
    /\ importer = IdleImporter
    /\ smsBalance = [exists |-> TRUE, totalSmsAvailable |-> MAX_SMS_PER_REQUEST + 1]
    /\ initialCredit = MAX_SMS_PER_REQUEST + 1
    /\ smsHistory = <<>>
    /\ rowLock = 0
    /\ run = [r \in Reqs |-> IdleRun]
    /\ ledger = <<>>

NextImport ==
    \/ \E r \in Solo : RunNext(r)
    \/ BulkCreate
    \/ Destroy

SpecImport == InitImport /\ [][NextImport]_vars

\* ------------------------------------------------------------------------
\* importContacts: src/import_raw_contacts.js
\* ------------------------------------------------------------------------
\* const uniqueKey = `${name}-${phone}`
UniqueKey(row) == <<row.name, row.phone>>

\* the 'data' handler over all rows of the file: a row with a name and a
\* phone is pushed unless its key is in contactSet already
RECURSIVE OnData(_, _)
OnData(rows, contactSet) ==
    IF rows = <<>> THEN <<>>
    ELSE LET row == Head(rows)
             uniqueKey == UniqueKey(row)
         IN  IF row.name # "" /\ row.phone # EmptyPhone /\ uniqueKey \notin contactSet
             THEN <<row>> \o OnData(Tail(rows), contactSet \cup {uniqueKey})
             ELSE OnData(Tail(rows), contactSet)

\* phones of Contact.findAll({ where: { clientId: 1 }, attributes: ['phone'] })
ExistingPhones(table) ==
    {table[k].phone : k \in {j \in 1..Len(table) : table[j].clientId = ClientId}}

\* The CSV file is read to its end
ReadCsv ==
    /\ importer.pc = "read"
    /\ importer' = [importer EXCEPT !.pc = "find",
                                    !.contacts = OnData(importer.csv, {})]
    /\ UNCHANGED <<revision, contacts, lastId, smsBalance, smsHistory, rowLock,
                   run, initialCredit, ledger>>

\* The existing phones are fetched and the contacts that have one of them
\* are filtered out
FilterExisting ==
    LET existingPhones == ExistingPhones(contacts)
        IsNew(contact) == contact.phone \notin existingPhones
        newContacts == SelectSeq(importer.contacts, IsNew)
    IN
    /\ importer.pc = "find"
    /\ importer' = [importer EXCEPT
                       !.pc = IF Len(newContacts) > 0 THEN "insert" ELSE "count",
                       !.newContacts = newContacts, !.i = 0, !.imported = 0]
    /\ UNCHANGED <<revision, contacts, lastId, smsBalance, smsHistory, rowLock,
                   run, initialCredit, ledger>>

\* One iteration of the insert loop: Contact.bulkCreate(batch)
ImportBatch ==
    LET new == importer.newContacts
        last == Min(importer.i + batchSize, Len(new))
        batch == SubSeq(new, importer.i + 1, last)
        rows == [k \in 1..Len(batch) |->
                    [id |-> lastId + k, clientId |-> ClientId,
                     phone |-> batch[k].phone]]
        table == contacts \o rows
    IN
    /\ importer.pc = "insert"
    /\ contacts' = table
    /\ lastId' = lastId + Len(batch)
    /\ importer' = [importer EXCEPT
                       !.i = @ + batchSize,
                       !.imported = @ + Len(batch),
                       !.pc = IF importer.i + batchSize < Len(new)
                              THEN "insert" ELSE "count"]
    /\ run' = [r \in Reqs |-> NotedBy(run[r], table)]
    /\ UNCHANGED <<revision, smsBalance, smsHistory, rowLock, initialCredit,
                   ledger>>

\* The final count, and process.exit(0)
ExitImport ==
    /\ importer.pc = "count"
    /\ importer' = [importer EXCEPT !.pc = "exit"]
    /\ UNCHANGED <<revision, contacts, lastId, smsBalance, smsHistory, rowLock,
                   run, initialCredit, ledger>>

\* The script is started again on the same file
ImportAgain ==
    /\ importer.pc = "exit" /\ importer.round < MaxRounds
    /\ importer' = [IdleImporter EXCEPT !.pc = "read",
                                        !.round = importer.round + 1,
                                        !.csv = importer.csv]
    /\ UNCHANGED <<revision, contacts, lastId, smsBalance, smsHistory, rowLock,
                   run, initialCredit, ledger>>

CsvRows == [name : CsvNames, phone : CsvPhones]

\* the script is started on some CSV file; client 1 has one contact
InitCsv ==
    /\ revision = "per"
    /\ contacts = ContactTable(1)
    /\ lastId = Len(contacts)
    /\ \E csv \in SeqsUpTo(CsvRows, MaxRows) :
          importer = [IdleImporter EXCEPT !.pc = "read", !.round = 1, !.csv = csv]
    /\ smsBalance = [exists |-> FALSE, totalSmsAvailable |-> 0]
    /\ initialCredit = 0
    /\ smsHistory = <<>>
    /\ rowLock = 0
    /\ run = [r \in Reqs |-> IdleRun]
    /\ ledger = <<>>

NextCsv ==
    \/ ReadCsv
    \/ FilterExisting
    \/ ImportBatch
    \/ ExitImport
    \/ ImportAgain

SpecCsv == InitCsv /\ [][NextCsv]_vars


\* ------------------------------------------------------------------------
\* Properties
\* ------------------------------------------------------------------------
RECURSIVE SumSent(_)
SumSent(l) == IF l = <<>> THEN 0 ELSE l[1].sent + SumSent(Tail(l))

RECURSIVE SumDebit(_)
SumDebit(l) == IF l = <<>> THEN 0 ELSE l[1].debit + SumDebit(Tail(l))

NoDuplicates(s) == \A a, b \in 1..Len(s) : a # b => s[a] # s[b]

Durable == <<smsBalance, smsHistory>>

\* the step commits the transaction of request r
Commits(r) == run[r].pc = "commit" /\ run'[r].transaction.state = "committed"

\* every gateway call of request r has answered and the dispatch loop is over
DispatchEnded(st) ==
    st.passedCheck /\ st.pc \in {"settle", "history", "commit", "done"}

\* C1: after any sequence of dispatches the stored balance is the initial
\* credit minus the number of recipients reported sent in the committed
\* dispatches; a failed recipient is never charged.
BalanceIsCreditMinusSent ==
    smsBalance.totalSmsAvailable = initialCredit - SumSent(ledger)

\* C2: under every interleaving of concurrent dispatches the balance is never
\* negative and the committed debits together never exceed the initial credit.
NoJointOverdraft ==
    /\ smsBalance.totalSmsAvailable >= 0
    /\ SumDebit(ledger) <= initialCredit

\* the sufficiency check of request r is about to find the credit too small
InsufficientAtCheck(r) ==
    \/ /\ revision = "per" /\ run[r].pc = "check"
       /\ Len(run[r].contacts) > run[r].inst.totalSmsAvailable
    \/ /\ revision = "bulk" /\ run[r].pc = "balance"
       /\ Len(run[r].contacts) > smsBalance.totalSmsAvailable

\* C3: a run whose recipient count exceeds the credit at its balance check is
\* rejected as insufficient, issues no gateway call and leaves balance and
\* history as they were; every gateway call follows a passed check of its run.
RejectedBeforeGateway ==
    /\ [](\A r \in Reqs :
            /\ run[r].calls # <<>> => run[r].passedCheck
            /\ run[r].resp.error = "insufficient" =>
                  /\ run[r].calls = <<>>
                  /\ ~run[r].passedCheck
                  /\ run[r].transaction.state = "rolledback"
                  /\ ~run[r].transaction.wroteBalance
                  /\ run[r].transaction.history = <<>>)
    /\ [][\A r \in Reqs :
            (InsufficientAtCheck(r) /\ run'[r] # run[r]) =>
                /\ run'[r].pc = "done"
                /\ run'[r].resp.error \in {"insufficient", "exception"}
                /\ revision = "per" => run'[r].resp.error = "insufficient"
                /\ run'[r].calls = <<>>
                /\ Durable' = Durable]_vars

RejectedBeforeGatewayWitness ==
    \E r \in Reqs :
        /\ run[r].resp.error = "insufficient"
        /\ run[r].inst.found
        /\ Len(run[r].contacts) > run[r].inst.totalSmsAvailable
        /\ \E q \in Reqs : run[q].calls # <<>>

\* the committed dispatches that wrote the balance
CommittedDebits ==
    LET Wrote(e) == e.wrote IN SelectSeq(ledger, Wrote)

\* C4: history entries and committed balance debits correspond one to one:
\* the k-th entry of SmsHistory belongs to the k-th committed debit and
\* records its amount, and no entry exists without a committed debit.
HistoryMatchesDebits ==
    /\ Len(smsHistory) = Len(CommittedDebits)
    /\ \A k \in 1..Len(smsHistory) :
          smsHistory[k].smsUsed = CommittedDebits[k].debit

HistoryMatchesDebitsWitness ==
    /\ Len(smsHistory) >= 1
    /\ \E r \in Reqs : run[r].resp.error = "exception" /\ run[r].calls # <<>>

\* C5: when the debit, the history write or the commit of a request fails,
\* neither write is durable: the failing step changes neither table, only a
\* commit ever changes them, and a request that ran alone leaves the initial
\* balance and an empty history.
FailedSettlingLeavesNothing ==
    /\ [](\A r \in Reqs :
            (run[r].resp.error = "exception"
               /\ \A q \in Reqs \ {r} : run[q].pc = "idle") =>
                  /\ smsBalance.totalSmsAvailable = initialCredit
                  /\ smsHistory = <<>>)
    /\ [][/\ \A r \in Reqs :
               (run[r].pc \in {"settle", "history", "commit"}
                  /\ run'[r].resp.error = "exception") =>
                     /\ Durable' = Durable
                     /\ run'[r].transaction.state = "rolledback"
                     /\ ~run'[r].transaction.wroteBalance
                     /\ run'[r].transaction.history = <<>>
          /\ Durable' # Durable => \E q \in Reqs : Commits(q)]_vars

FailedSettlingLeavesNothingWitness ==
    \E r \in Reqs :
        /\ run[r].resp.error = "exception"
        /\ run[r].calls # <<>>
        /\ run[r].inst.totalSmsAvailable < initialCredit
        /\ \A q \in Reqs \ {r} : run[q].pc = "idle"

\* every gateway send of the request failed
AllSendsFailed(st) ==
    IF revision = "per" THEN Len(st.failedMessages) = Len(st.contacts)
    ELSE ~IsSent(st.sendResponse)

\* C6: a dispatch to N >= 1 recipients whose every send failed commits with a
\* debit of zero and exactly one history entry, of status "failed", with
\* N recipients and 0 credits used.
AllFailedIsRecorded ==
    [][\A r \in Reqs :
         (Commits(r) /\ Len(run[r].contacts) >= 1 /\ AllSendsFailed(run[r])) =>
             /\ smsBalance' = smsBalance
             /\ Len(smsHistory') = Len(smsHistory) + 1
             /\ smsHistory'[Len(smsHistory')].status = "failed"
             /\ smsHistory'[Len(smsHistory')].recipientCount = Len(run[r].contacts)
             /\ smsHistory'[Len(smsHistory')].smsUsed = 0]_vars

\* C7: when the dispatch of a request is over, each resolved recipient is in
\* exactly one of sentMessages and failedMessages, exactly once, whatever the
\* order of the answers, and sentCount + failedCount is the recipient count.
EveryRecipientOnce ==
    \A r \in Reqs :
        (revision = "per" /\ DispatchEnded(run[r])) =>
            LET out == run[r].sentMessages \o run[r].failedMessages IN
            /\ Len(out) = Len(run[r].contacts)
            /\ Range(out) = Range(run[r].contacts)
            /\ NoDuplicates(out)
            /\ Range(run[r].sentMessages) \cap Range(run[r].failedMessages) = {}
            /\ run[r].resp.code = 200 =>
                  /\ run[r].resp.totalContacts = Len(run[r].contacts)
                  /\ run[r].resp.sentCount + run[r].resp.failedCount
                        = run[r].resp.totalContacts

EveryRecipientOnceWitness ==
    \E r \in Reqs :
        /\ revision = "per" /\ run[r].resp.code = 200
        /\ Len(run[r].contacts) = 3
        /\ run[r].resp.sentCount >= 1 /\ run[r].resp.failedCount >= 1
        /\ run[r].sentMessages \o run[r].failedMessages # run[r].contacts
        /\ run[r].failedMessages \o run[r].sentMessages # run[r].contacts

\* the step is the answer of a gateway call of request r that is not a success
FailedAnswer(r) ==
    \/ /\ revision = "per"
       /\ run'[r].inflight # run[r].inflight
       /\ run'[r].inflight \subseteq run[r].inflight
       /\ run'[r].sentMessages = run[r].sentMessages
    \/ /\ revision = "bulk" /\ run[r].pc = "sending"
       /\ run'[r].pc # "sending"
       /\ ~IsSent(run'[r].sendResponse)

\* C8: a gateway call that fails never aborts the dispatch: the other calls
\* in flight stay in flight, the recipient is recorded as failed, the run is
\* not answered from the catch block, and a run that reaches settling has
\* called the gateway for every recipient.
GatewayFailureIsNotFatal ==
    /\ [](\A r \in Reqs :
            DispatchEnded(run[r]) =>
               IF revision = "per"
               THEN run[r].calls = [k \in 1..Len(run[r].contacts) |->
                                       <<run[r].contacts[k]>>]
               ELSE run[r].calls = <<run[r].contacts>>)
    /\ [][\A r \in Reqs :
            /\ FailedAnswer(r) =>
                  /\ run'[r].pc \in {"batch", "settle"}
                  /\ run'[r].resp = NoResponse
                  /\ run'[r].transaction.state = "open"
                  /\ Cardinality(run'[r].inflight) = Cardinality(run[r].inflight) - 1
                  /\ revision = "per" =>
                        \E k \in run[r].inflight \ run'[r].inflight :
                            run'[r].failedMessages =
                                Append(run[r].failedMessages, run[r].contacts[k])
            /\ run[r].pc \in {"dispatch", "batch", "sending"} => run'[r].pc # "done"]_vars

GatewayFailureIsNotFatalWitness ==
    \E r \in Reqs :
        /\ revision = "per" /\ run[r].resp.code = 200
        /\ Len(run[r].contacts) = 3
        /\ run[r].failedMessages = <<run[r].contacts[1]>>
        /\ run[r].sentMessages = <<run[r].contacts[2], run[r].contacts[3]>>

\* C9: the gateway calls of a request in flight at the same time never
\* exceed the fan-out limit MAX_CONCURRENT_BATCHES.
FanOutWithinLimit ==
    \A r \in Reqs : Cardinality(run[r].inflight) <= MAX_CONCURRENT_BATCHES

\* number of the batch the k-th contact of a request belongs to
BatchOf(k) == (k - 1) \div BATCH_SIZE

\* C10: batches never overlap and start in list order: the calls issued so
\* far are a prefix of the recipient list, and while a call is in flight
\* every call of an earlier batch has answered and no later batch has started.
BatchesAreSequential ==
    \A r \in Reqs :
        revision = "per" =>
            LET st == run[r]
                done == Range(st.sentMessages) \cup Range(st.failedMessages)
            IN
            /\ Len(st.calls) <= Len(st.contacts)
            /\ \A j \in 1..Len(st.calls) : st.calls[j] = <<st.contacts[j]>>
            /\ \A k \in st.inflight, j \in 1..Len(st.calls) :
                  /\ BatchOf(j) <= BatchOf(k)
                  /\ BatchOf(j) < BatchOf(k) => st.contacts[j] \in done

BatchesAreSequentialWitness ==
    \E r \in Reqs :
        /\ revision = "per"
        /\ Len(run[r].contacts) = 3
        /\ run[r].inflight = {3}
        /\ Len(run[r].sentMessages) + Len(run[r].failedMessages) = 2

\* C11: every sendSms run eventually finishes, even when a gateway call never
\* answers: the call is given up after its timeout and recorded as failed, so
\* no run that has started is ever left without a step to take.
NoRunWaitsForever ==
    \A r \in Reqs :
        run[r].pc \notin {"idle", "done"} => ENABLED RunNext(r)

\* every requested id is the id of one contact of ClientId, and none is
\* requested twice
Resolvable(ids) ==
    /\ NoDuplicates(ids)
    /\ \A k \in 1..Len(ids) :
          \E j \in 1..Len(contacts) :
              contacts[j].id = ids[k] /\ contacts[j].clientId = ClientId

\* the step fetches the contacts of the explicit-ids request r
FetchesByIds(r) ==
    /\ ~run[r].sendToAll /\ run[r].hasIds
    /\ run[r].pc = "resolve" /\ run'[r].pc # "resolve"

\* C12: an explicit-ids dispatch is rejected with the selection-mismatch error
\* whenever the contacts fetched are not as many as the ids requested, in
\* particular when an id does not exist or belongs to another client; the
\* rejected run made no gateway call and left balance and history unchanged.
MismatchIsRejected ==
    /\ [](\A r \in Reqs :
            /\ run[r].resp.error = "mismatch" =>
                  /\ ~Resolvable(run[r].contactIds)
                  /\ run[r].calls = <<>>
                  /\ run[r].transaction.state = "rolledback"
                  /\ ~run[r].transaction.wroteBalance
                  /\ run[r].transaction.history = <<>>
            /\ (run[r].calls # <<>> /\ ~run[r].sendToAll) =>
                  /\ Resolvable(run[r].contactIds)
                  /\ Range(run[r].contacts) = Range(run[r].contactIds))
    /\ [][\A r \in Reqs :
            (FetchesByIds(r) /\ ~Resolvable(run[r].contactIds)) =>
                /\ run'[r].pc = "done"
                /\ run'[r].resp.error \in {"mismatch", "exception"}
                /\ run'[r].resp.error = "exception" => AwaitsStorage(run[r])
                /\ run'[r].calls = <<>>
                /\ Durable' = Durable]_vars

MismatchIsRejectedWitness ==
    \E r, q \in Reqs :
        /\ run[r].resp.error = "mismatch" /\ run[r].contactIds = <<1, 0>>
        /\ run[q].resp.error = "mismatch" /\ run[q].contactIds = <<2>>
        /\ smsBalance.exists /\ smsBalance.totalSmsAvailable = MaxBalance

\* C13: no dispatch whose resolved recipient set is larger than
\* MAX_SMS_PER_REQUEST ever reaches the gateway, also when contacts are added
\* between the early Contact.count and the paged resolution of a send-to-all.
OnlyLimitedDispatchReachesGateway ==
    \A r \in Reqs :
        run[r].calls # <<>> => Len(run[r].contacts) <= MAX_SMS_PER_REQUEST

\* the step ends the run of request r with an error response
EndsInError(r) ==
    run[r].pc # "done" /\ run'[r].pc = "done" /\ run'[r].resp.code # 200

\* C14: a run that ends on any error path (invalid request, unresolved or too
\* many recipients, missing or insufficient balance, storage failure) leaves
\* the stored balance and the history entries exactly as they were before it:
\* the ending step writes nothing, no write of the run is pending or committed,
\* and after a run that was alone both tables are in their initial state.
ErrorPathsLeaveStorageUntouched ==
    /\ [](\A r \in Reqs :
            (run[r].pc = "done" /\ run[r].resp.code # 200) =>
                /\ run[r].transaction.state # "committed"
                /\ ~run[r].transaction.wroteBalance
                /\ run[r].transaction.history = <<>>
                /\ \A k \in 1..Len(ledger) : ledger[k].run # r
                /\ (\A q \in Reqs \ {r} : run[q].pc = "idle") =>
                      /\ smsBalance.totalSmsAvailable = initialCredit
                      /\ smsHistory = <<>>)
    /\ [][\A r \in Reqs : EndsInError(r) => Durable' = Durable]_vars

ErrorPathsLeaveStorageUntouchedWitness ==
    \E r, q \in Reqs :
        /\ run[r].resp.error = "exception" /\ run[r].calls # <<>>
        /\ run[q].resp.error \in {"validation", "emptyMessage", "tooMany"}
        /\ smsBalance.totalSmsAvailable = initialCredit /\ initialCredit > 0
        /\ smsHistory = <<>>

\* the errors of recipient resolution
ResolverErrors == {"idsRequired", "mismatch", "noContacts", "tooMany"}

\* the recipients request r asks for can be resolved
SelectionResolves(st) ==
    IF st.sendToAll THEN CountOfClient \in 1..MAX_SMS_PER_REQUEST
    ELSE st.hasIds /\ st.contactIds # <<>> /\ Resolvable(st.contactIds)

\* C15: a run goes through validating, resolving, balance checking,
\* dispatching, settling, committed in this order: while it resolves its
\* recipients, and when it is aborted with a resolver error, the balance has
\* not been read; a missing balance is only reported to a request whose
\* recipients resolve; no gateway call precedes resolution and the check.
ResolvingPrecedesBalance ==
    \A r \in Reqs :
        /\ (run[r].pc \in {"limit", "resolve"}
               \/ run[r].resp.error \in ResolverErrors) => ~run[r].inst.found
        /\ run[r].resp.error = "noBalance" => SelectionResolves(run[r])
        /\ run[r].calls # <<>> => (run[r].passedCheck /\ run[r].contacts # <<>>)

\* the same, for the revision of src/controllers/smsController.js only
ResolvingPrecedesBalanceInBulk == revision = "bulk" => ResolvingPrecedesBalance

\* C16: every history entry records recipientCount equal to the number of
\* recipients attempted and smsUsed equal to the number sent, for every mix of
\* sent and failed recipients, and its status is "sent" only when all of them
\* were sent.
HistoryRecordsAttemptedAndSent ==
    /\ Len(smsHistory) = Len(CommittedDebits)
    /\ \A k \in 1..Len(smsHistory) :
          LET e == CommittedDebits[k] IN
          /\ smsHistory[k].recipientCount = e.attempted
          /\ smsHistory[k].smsUsed = e.sent
          /\ smsHistory[k].status = "sent" <=> e.sent = e.attempted

\* the status the outcome of the one gateway call of a bulk dispatch calls for
StatusOfCall(res) == IF IsSent(res) THEN "sent" ELSE "failed"

\* C17: in the revision that sends one joined call, the status written to the
\* history entry and returned to the caller is "sent" exactly when the gateway
\* call succeeded with HTTP 200, and "failed" when it did not.
BulkStatusFollowsGateway ==
    \A r \in Reqs :
        (revision = "bulk" /\ run[r].resp.code = 200) =>
            /\ run[r].resp.status = StatusOfCall(run[r].sendResponse)
            /\ \A k \in 1..Len(run[r].transaction.history) :
                  run[r].transaction.history[k].status =
                      StatusOfCall(run[r].sendResponse)

\* the recipients of a sequence of gateway calls, in the order submitted
RECURSIVE Submitted(_)
Submitted(calls) ==
    IF calls = <<>> THEN <<>> ELSE Head(calls) \o Submitted(Tail(calls))

\* C18: the recipient list is dispatched in consecutive batches that cover it
\* exactly and in order, each of at most BATCH_SIZE recipients; no single
\* gateway call carries the numbers of more than BATCH_SIZE recipients, in
\* the per-recipient revision and in the joined-call revision.
CallsCarryAtMostABatch ==
    \A r \in Reqs :
        LET st == run[r]
            submitted == Submitted(st.calls)
        IN  /\ \A k \in 1..Len(st.calls) : Len(st.calls[k]) <= BATCH_SIZE
            /\ submitted = SubSeq(st.contacts, 1, Len(submitted))
            /\ (revision = "per" /\ st.pc = "batch") =>
                  Len(submitted) = Min(st.i + BATCH_SIZE, Len(st.contacts))
            /\ DispatchEnded(st) => submitted = st.contacts

\* the same, for the revision of src/unnamed/part_001 only
CallsCarryAtMostABatchInPer == revision = "per" => CallsCarryAtMostABatch

\* the step ends the paging loop of the send-to-all request r
PagingEnds(r) ==
    /\ revision = "per" /\ run[r].sendToAll
    /\ run[r].pc = "resolve" /\ run'[r].pc = "check"

\* C19: the paging loop of a send-to-all yields every contact of the account
\* exactly once and in storage order, none skipped and none repeated, also
\* when contacts are inserted or deleted between two page reads: what it
\* yields is the account's contact list as it was at some moment of the loop.
PagingYieldsEveryContactOnce ==
    [][\A r \in Reqs :
         PagingEnds(r) =>
             /\ NoDuplicates(run'[r].contacts)
             /\ run'[r].contacts \in run[r].tables]_vars

\* a contact that was in the table when the last page was read is not yielded
PagingSkipsAContact ==
    \E r \in Reqs :
        /\ revision = "per" /\ run[r].sendToAll /\ run[r].pc = "check"
        /\ run[r].contacts = <<1, 3>> /\ FindAllOfClient = <<1, 5>>

\* the same, for the loops during which the Contact table did not change
PagingOfAQuietTable ==
    [][\A r \in Reqs :
         (PagingEnds(r) /\ Cardinality(run[r].tables) = 1) =>
             /\ NoDuplicates(run'[r].contacts)
             /\ run'[r].contacts = FindAllOfClient]_vars

\* number of batches of at most BATCH_SIZE that n recipients are split into
NumBatches(n) == (n + BATCH_SIZE - 1) \div BATCH_SIZE

\* no number is submitted to the gateway twice by the run, and no run has
\* more recipients submitted than it resolved
NoNumberSubmittedTwice ==
    \A r \in Reqs :
        /\ NoDuplicates(Submitted(run[r].calls))
        /\ Range(Submitted(run[r].calls)) \subseteq Range(run[r].contacts)

\* C20: within one dispatch no recipient's number is submitted to the gateway
\* more than once and a failed call is never issued again: a finished
\* per-recipient dispatch has made as many gateway calls as it has recipients,
\* a finished joined-call dispatch as many as it has batches.
OneCallPerRecipientOrBatch ==
    /\ NoNumberSubmittedTwice
    /\ \A r \in Reqs :
          DispatchEnded(run[r]) =>
              Len(run[r].calls) =
                  IF revision = "per" THEN Len(run[r].contacts)
                  ELSE NumBatches(Len(run[r].contacts))

\* C21: the remainingBalance a committed sendSms returns is the stored,
\* committed balance of the account right after that dispatch's commit; also
\* when another dispatch committed a debit between this run's balance read
\* and its commit, and also for a run with no successful send.
RemainingBalanceIsStoredBalance ==
    [][\A r \in Reqs :
         Commits(r) =>
             run'[r].resp.remainingBalance = smsBalance'.totalSmsAvailable]_vars

\* the stored balance after a commit is the balance stored before it minus
\* the amount the committing dispatch debited
CommitDebitsStoredBalance ==
    [][\A r \in Reqs :
         Commits(r) =>
             smsBalance'.totalSmsAvailable =
                 smsBalance.totalSmsAvailable - run[r].transaction.debit]_vars

\* C22: every invocation of sendSms finishes the transaction it opened at
\* entry: on every exit path (validation errors, empty message, each
\* rejection, success, thrown error) the transaction of a handler that has
\* returned is committed or rolled back, never left open.
TransactionFinishedOnExit ==
    \A r \in Reqs :
        run[r].pc = "done" =>
            run[r].transaction.state \in {"committed", "rolledback"}

\* the same, for the exits after the two validation checks
TransactionFinishedAfterValidation ==
    \A r \in Reqs :
        (run[r].pc = "done"
           /\ run[r].resp.error \notin {"validation", "emptyMessage"}) =>
              /\ run[r].transaction.state \in {"committed", "rolledback"}
              /\ run[r].transaction.state = "committed" <=> run[r].resp.code = 200

\* the step inserts no contact of ClientId whose phone an earlier row of the
\* table holds for ClientId
InsertsNoHeldPhone ==
    \A k \in (Len(contacts) + 1)..Len(contacts') :
        contacts'[k].clientId = ClientId =>
            \A j \in 1..(k - 1) :
                contacts'[j].clientId = ClientId =>
                    contacts'[j].phone # contacts'[k].phone

\* C23: importContacts never inserts a contact whose phone number a contact
\* of client 1 already holds, whether that contact was in the database before
\* the run or was inserted earlier in the same run from another CSV row; a
\* second run on the same CSV file inserts nothing.
ImportInsertsNoHeldPhone ==
    /\ [](importer.round > 1 => importer.imported = 0)
    /\ [][InsertsNoHeldPhone]_vars

\* the parts of it that do not depend on two rows of one file sharing a
\* phone: no phone held before the run is inserted, and a second run on the
\* same file inserts nothing
ImportSkipsExistingPhones ==
    /\ [](importer.round > 1 => importer.imported = 0)
    /\ [][\A k \in (Len(contacts) + 1)..Len(contacts') :
             contacts'[k].phone \notin ExistingPhones(ContactTable(1))]_vars

\* the calls of request r that the step sees answered
Answered(r) == run[r].inflight \ run'[r].inflight

\* C24: sendSMS never throws to its caller, it returns the HTTP status of the
\* response or the caught error object; the per-recipient dispatcher puts a
\* recipient in sentMessages if and only if that value is exactly 200, and in
\* failedMessages for every other value (another status, an error object),
\* and the handler goes on after either.
SendSmsResultIsClassified ==
    [][\A r \in Reqs :
         Answered(r) # {} =>
             IF revision = "per"
             THEN LET k == run'[r].smsResult.k
                      res == run'[r].smsResult.res
                      contact == run[r].contacts[k]
                  IN  /\ Answered(r) = {k}
                      /\ res \in GatewayResults
                      /\ run'[r].pc = run[r].pc
                      /\ run'[r].resp = NoResponse
                      /\ IF res.kind = "status" /\ res.status = 200
                         THEN /\ run'[r].sentMessages =
                                    Append(run[r].sentMessages, contact)
                              /\ run'[r].failedMessages = run[r].failedMessages
                         ELSE /\ run'[r].failedMessages =
                                    Append(run[r].failedMessages, contact)
                              /\ run'[r].sentMessages = run[r].sentMessages
             ELSE /\ run'[r].sendResponse \in GatewayResults
                  /\ run'[r].pc = "settle"
                  /\ run'[r].resp = NoResponse]_vars

SendSmsResultIsClassifiedWitness ==
    \E r \in Reqs :
        /\ revision = "per" /\ run[r].pc = "batch"
        /\ run[r].smsResult.res.kind = "status"
        /\ run[r].smsResult.res.status # 200
        /\ Len(run[r].sentMessages) = 1
        /\ Len(run[r].failedMessages) = 2

=============================================================================
